---- MODULE Spec2Model ----
(***************************************************************************)
(* Model of the live-preview decoration plugin of Obsidian-Thino           *)
(* (src/editor/live-preview.ts).                                           *)
(*                                                                         *)
(* The plugin walks the editor's syntax tree once per visible range and    *)
(* adds mark / replace decorations to a RangeSetBuilder.  The syntax tree  *)
(* walk (Tree.iterate) and the builder (RangeSetBuilder.add) are the       *)
(* CodeMirror 0.19 / lezer 0.15 ones the file is written against (enter    *)
(* receives (type, from, to); the token classes come from                  *)
(* @codemirror/stream-parser).                                             *)
(*                                                                         *)
(* The second half models the editor component                             *)
(* (src/components/ObsidianNativeEditor.tsx): its setup effect, the        *)
(* imperative handle (insertText, setContent, getContent) and the Tab      *)
(* keydown handlers of the CodeMirror view and of the fallback textarea.   *)
(*                                                                         *)
(* The last part models parseMarkedToHtml, which rewrites the wiki links   *)
(* and markdown links of a rendered memo with two global regular           *)
(* expressions of its module.                                              *)
(***************************************************************************)
EXTENDS Integers, Sequences, FiniteSets, TLC

\* ------------------------------------------------------------------ bounds
\* Document offsets are 0..MaxPos.
MaxPos == 2
\* A syntax tree has at most MaxNodes nodes below its top node, one more in
\* the specifications of nested documents.
MaxNodes == 1
\* The view has at most MaxRanges visible ranges.
MaxRanges == 2
\* At most MaxDefects nodes of a tree have an invalid range (to < from),
\* escape their parent or start before the end of their previous sibling.
MaxDefects == 1
\* The host sends at most MaxUpdates update notifications to the plugin.
MaxUpdates == 1
\* The initialContent of the editor component has at most MaxLen characters.
MaxLen == 3
\* At most MaxOps calls and key presses reach the editor component after its
\* setup.
MaxOps == 2
\* links and other pieces in a memo
MaxLinks == 2
\* calls of parseMarkedToHtml
MaxCalls == 2

\* --------------------------------------------------- library constants
\* RangeSetBuilder starts with lastFrom = lastTo = -1e9.
Far == -1000000000
\* startSide / endSide of a non-inclusive Decoration.mark (BigInline units).
MarkStartSide == 1
MarkEndSide == -1
\* startSide / endSide of a non-inclusive, non-block Decoration.replace.
ReplaceStartSide == 1
ReplaceEndSide == -1

\* ------------------------------------------------------------- inputs
Positions == 0..MaxPos

\* The token-class strings (already split on ' ') that the parser attaches
\* to the node types of one document.  {} is a node type without a
\* tokenClassNodeProp.  Every tree draws its node types from one palette.
\* Inline documents: strong text and inline code.
Palettes == { { {"strong"}, {"inline-code"} } }

\* Nested inline documents: plain tokens, strong text, inline code.
WidePalettes ==
  { { {}, {"inline-code"} },
    { {"strong"}, {"inline-code"} } }

\* Block documents: headings, lists and blockquotes with their formatting
\* markers.
BlockPalettes ==
  { { {"h2"}, {"formatting-header"} },
    { {"list-1"}, {"formatting-list-ol"} },
    { {"quote"}, {"formatting-quote"} } }

\* Documents with node types the plugin has no style for: a node type
\* without token class and one whose class is not in the plugin's vocabulary.
PlainPalettes ==
  { { {}, {"inline-code"} },
    { {"comment"}, {"inline-code"} } }

\* the node types of the documents the host keeps updating
HostPalettes == { { {"inline-code"}, {"h2"} } }

\* ancestors-or-self of node i of tree t (parent 0 is the top node)
RECURSIVE AncestorsOrSelf(_, _)
AncestorsOrSelf(t, i) ==
  IF i = 0 THEN {}
  ELSE {i} \cup (IF t[i].parent < i THEN AncestorsOrSelf(t, t[i].parent) ELSE {})

\* the previous sibling of node i, 0 if none
PrevSibling(t, i) ==
  LET S == {j \in 1..(i - 1) : t[j].parent = t[i].parent}
  IN IF S = {} THEN 0 ELSE CHOOSE j \in S : \A k \in S : k <= j

\* node i has an invalid range, escapes its parent or overlaps its sibling
Defect(t, i) ==
  \/ t[i].to < t[i].from
  \/ /\ t[i].parent # 0
     /\ \/ t[i].from < t[t[i].parent].from
        \/ t[i].to > t[t[i].parent].to
  \/ /\ PrevSibling(t, i) # 0
     /\ t[i].from < t[PrevSibling(t, i)].to

Defects(t) == Cardinality({i \in 1..Len(t) : Defect(t, i)})

\* the parent pointers of t describe a tree listed in pre-order
PreOrder(t) ==
  \A i \in 1..Len(t) : t[i].parent \in {0} \cup AncestorsOrSelf(t, i - 1)

\* the nodes a tree over the node types pal is made of
NodeRecs(pal, maxNodes) ==
  [from : Positions, to : Positions, props : pal, parent : 0..(maxNodes - 1)]

\* visible ranges: ascending, non-overlapping
RECURSIVE RangesFrom(_, _)
RangesFrom(lo, n) ==
  IF n = 0 THEN { <<>> }
  ELSE { <<>> } \cup
       { <<[from |-> f, to |-> e]>> \o rest :
           f \in lo..MaxPos, e \in lo..MaxPos, rest \in RangesFrom(lo, n - 1) }

RangeLists ==
  { rs \in RangesFrom(0, MaxRanges) :
      /\ \A i \in 1..Len(rs) : rs[i].from <= rs[i].to
      /\ \A i \in 1..(Len(rs) - 1) : rs[i].to <= rs[i + 1].from }

\* the visible ranges of a view that shows text: none of them is empty
Viewports == { rs \in RangeLists : \A i \in 1..Len(rs) : rs[i].from < rs[i].to }


\* -------------------------------------------------------------- state
VARIABLES
  tree,         \* syntaxTree(view.state): the nodes below the top node, pre-order
  ranges,       \* view.visibleRanges
  pc,           \* "new": plugin not constructed; "build": inside
                \* buildDecorations; "idle": constructed, waiting for updates;
                \* "failed": an exception left the constructor or update
  decorations,  \* this.decorations
  builder,      \* the RangeSetBuilder of the running call: its layers
  spans,        \* the ranges added to builder so far, in the order of the adds
  ri,           \* number of visible ranges the for loop has taken
  cur,          \* node the tree cursor is on (0: no walk in progress)
  updates,      \* number of update notifications received
  calls,        \* number of buildDecorations calls started
  other,        \* a second buildDecorations call, on a snapshot of its own:
                \* its view (tree, ranges), its locals and what it returned
  editor,       \* the ObsidianNativeEditor component: its refs, its state
                \* and the document and selection of its backend
  md            \* the module of parseMarkedToHtml: the lastIndex of its two
                \* global regular expressions, the metadata cache, the calls

vars == <<tree, ranges, pc, decorations, builder, spans, ri, cur, updates, calls,
          other, editor, md>>

\* no second call has been issued
NoCall ==
  [tree |-> << >>, ranges |-> << >>, pc |-> "none", decorations |-> << >>,
   builder |-> << >>, spans |-> << >>, ri |-> 0, cur |-> 0, mixed |-> FALSE]

\* the component is not rendered
NoEditor ==
  [stage |-> "none", app |-> FALSE, activeCM |-> FALSE, creation |-> "ok",
   initialContent |-> << >>, contentRef |-> << >>,
   view |-> FALSE, textarea |-> FALSE, isReady |-> FALSE, synced |-> FALSE,
   doc |-> << >>, anchor |-> 0, head |-> 0, threw |-> FALSE, hist |-> << >>]

\* the module of parseMarkedToHtml has been loaded, nothing was parsed
NoMd ==
  [internal |-> 0, external |-> 0, resolved |-> {}, hist |-> << >>]

\* ------------------------------------------------- RangeSetBuilder.add
\* new RangeSetBuilder(): one layer, nothing added (last = null)
NewLayer == [lastFrom |-> Far, lastTo |-> Far, lastStart |-> 0, lastEnd |-> 0]
NewBuilder == << NewLayer >>

\* a || b of JavaScript on numbers
OrElse(a, b) == IF a # 0 THEN a ELSE b

\* addInner that hands an out-of-order range to the next layer instead of
\* throwing
AddInner_NoThrow(layer, sp) ==
  LET diff == OrElse(sp.from - layer.lastTo, sp.startSide - layer.lastEnd)
  IN IF diff < 0 THEN "reject" ELSE "accept"

\* addInner on one layer: "throw", "reject" (return false) or "accept"
AddInner(layer, sp) ==
  LET diff == OrElse(sp.from - layer.lastTo, sp.startSide - layer.lastEnd)
      ord  == OrElse(sp.from - layer.lastFrom, sp.startSide - layer.lastStart)
  IN IF diff <= 0 /\ ord < 0 THEN "throw"
     ELSE IF diff < 0 THEN "reject"
     ELSE "accept"

LayerAfter(sp) ==
  [lastFrom |-> sp.from, lastTo |-> sp.to,
   lastStart |-> sp.startSide, lastEnd |-> sp.endSide]

\* add(from, to, value), tried on layer i and handed to the next layer when
\* the layer rejects it; the result is the new layers, or <<>> when add throws
RECURSIVE AddAt(_, _, _)
AddAt(layers, i, sp) ==
  LET ls == IF i > Len(layers) THEN Append(layers, NewLayer) ELSE layers
      r  == AddInner(ls[i], sp)
  IN IF r = "throw" THEN << >>
     ELSE IF r = "accept" THEN [ls EXCEPT ![i] = LayerAfter(sp)]
     ELSE AddAt(ls, i + 1, sp)

BuilderAdd(layers, sp) == AddAt(layers, 1, sp)

\* ------------------------------------------------------- decorations
Mark(n, f, e, c) ==
  [from |-> f, to |-> e, kind |-> "mark", class |-> c, node |-> n,
   startSide |-> MarkStartSide, endSide |-> MarkEndSide]

Replace(n, f, e) ==
  [from |-> f, to |-> e, kind |-> "replace", class |-> "", node |-> n,
   startSide |-> ReplaceStartSide, endSide |-> ReplaceEndSide]

If(c, s) == IF c THEN s ELSE << >>

\* the builder.add calls of the h1..h6 loop, from level i on
RECURSIVE HeadingAdds(_, _, _, _, _)
HeadingAdds(n, props, f, e, i) ==
  IF i > 6 THEN << >>
  ELSE If(<<"h1", "h2", "h3", "h4", "h5", "h6">>[i] \in props,
          << Mark(n, f, e, <<"cm-h1", "cm-h2", "cm-h3", "cm-h4", "cm-h5", "cm-h6">>[i]) >>)
       \o HeadingAdds(n, props, f, e, i + 1)

\* enter that gives a node without a mapped token class a default mark
EnterAdds_DefaultMark(n, props, f, e) ==
  IF props \cap {"strong", "em", "strikethrough", "inline-code"} = {}
  THEN << Mark(n, f, e, "cm-text") >>
  ELSE If("strong" \in props, << Mark(n, f, e, "cm-strong") >>)
    \o If("em" \in props, << Mark(n, f, e, "cm-em") >>)
    \o If("strikethrough" \in props, << Mark(n, f, e, "cm-strikethrough") >>)
    \o If("inline-code" \in props,
          << Mark(n, f, e, "cm-inline-code"),
             Replace(n, f, f + 1), Replace(n, e - 1, e) >>)

\* the builder.add calls of enter(type, from, to) for node n, in code order
EnterAdds(n, props, f, e) ==
  IF props = {} THEN << >>
  ELSE
       If("strong" \in props, << Mark(n, f, e, "cm-strong") >>)
    \o If("em" \in props, << Mark(n, f, e, "cm-em") >>)
    \o If("strikethrough" \in props, << Mark(n, f, e, "cm-strikethrough") >>)
    \o If("inline-code" \in props,
          << Mark(n, f, e, "cm-inline-code"),
             Replace(n, f, f + 1), Replace(n, e - 1, e) >>)
    \o If("formatting-list-ol" \in props \/ "formatting-list-ul" \in props,
          << Replace(n, f, e) >>)
    \o If("formatting-header" \in props, << Replace(n, f, e) >>)
    \o If("formatting-quote" \in props, << Replace(n, f, e) >>)
    \o If("formatting-code-block" \in props, << Replace(n, f, e) >>)
    \o HeadingAdds(n, props, f, e, 1)
    \o If("list-1" \in props, << Mark(n, f, e, "cm-list-1") >>)
    \o If("quote" \in props, << Mark(n, f, e, "cm-blockquote") >>)
    \o If("code-block" \in props, << Mark(n, f, e, "cm-code-block") >>)

\* the adds of adds[i..] applied to the builder; ok = FALSE when one throws
RECURSIVE AddAll(_, _, _, _)
AddAll(layers, out, adds, i) ==
  IF i > Len(adds) THEN [ok |-> TRUE, layers |-> layers, spans |-> out]
  ELSE LET ls == BuilderAdd(layers, adds[i])
       IN IF ls = << >> THEN [ok |-> FALSE, layers |-> layers, spans |-> out]
          ELSE AddAll(ls, Append(out, adds[i]), adds, i + 1)

\* ------------------------------------------------------ Tree.iterate
\* iterate that enters every node
InRange_Always(nd, r) == TRUE

\* iterate called without from and to: from = 0, to = this.length
InRange_WholeDocument(nd, r) == nd.from <= MaxPos /\ nd.to >= 0

\* iterate enters a node when c.from <= to && c.to >= from
InRange(nd, r) == nd.from <= r.to /\ nd.to >= r.from

\* where the walk starts: the first child of the top node
FirstNode(t) == IF Len(t) = 0 THEN 0 ELSE 1

\* the cursor after node i was entered: its first child, else what follows
AfterEnter(t, i) == IF i < Len(t) THEN i + 1 ELSE 0

\* the cursor after node i was not entered: the node after i's subtree
AfterSkip(t, i) ==
  LET S == {j \in (i + 1)..Len(t) : i \notin AncestorsOrSelf(t, j)}
  IN IF S = {} THEN 0 ELSE CHOOSE j \in S : \A k \in S : j <= k

\* ------------------------------------------- buildDecorations as a whole
\* one iterate call from node i on; acc is the builder and the spans so far
RECURSIVE Iterate(_, _, _, _)
Iterate(t, r, i, acc) ==
  IF i = 0 \/ ~acc.ok THEN acc
  ELSE IF InRange(t[i], r)
       THEN Iterate(t, r, AfterEnter(t, i),
                    AddAll(acc.layers, acc.spans,
                           EnterAdds(i, t[i].props, t[i].from, t[i].to), 1))
       ELSE Iterate(t, r, AfterSkip(t, i), acc)

\* the for loop over the visible ranges k, k + 1, ...
RECURSIVE ForRanges(_, _, _, _)
ForRanges(t, rs, k, acc) ==
  IF k > Len(rs) \/ ~acc.ok THEN acc
  ELSE ForRanges(t, rs, k + 1, Iterate(t, rs[k], FirstNode(t), acc))

\* what a call of buildDecorations on tree t and visible ranges rs returns:
\* ok = FALSE when it throws, else the ranges of the returned set
BuildDecorations(t, rs) ==
  ForRanges(t, rs, 1, [ok |-> TRUE, layers |-> NewBuilder, spans |-> << >>])

\* ------------------------------------------------------------ actions
InitOver(pals, maxNodes, maxDefects, rangeLists) ==
  /\ \E pal \in pals, n \in 0..maxNodes :
       /\ tree \in [1..n -> NodeRecs(pal, maxNodes)]
       /\ PreOrder(tree)
       /\ Defects(tree) <= maxDefects
  /\ ranges \in rangeLists
  /\ pc = "new"
  /\ decorations = << >>
  /\ builder = << >>
  /\ spans = << >>
  /\ ri = 0
  /\ cur = 0
  /\ updates = 0
  /\ calls = 0
  /\ other = NoCall
  /\ editor = NoEditor
  /\ md = NoMd

Init == InitOver(Palettes, MaxNodes, MaxDefects, RangeLists)

\* a builder created once and kept between the calls
BuildStart_KeepBuilder ==
  /\ pc' = "build"
  /\ builder' = IF builder = << >> THEN NewBuilder ELSE builder
  /\ spans' = spans
  /\ ri' = 0
  /\ cur' = 0
  /\ calls' = calls + 1

\* line 26: const builder = new RangeSetBuilder()
BuildStart ==
  /\ pc' = "build"
  /\ builder' = NewBuilder
  /\ spans' = << >>
  /\ ri' = 0
  /\ cur' = 0
  /\ calls' = calls + 1

\* constructor(view): this.decorations = this.buildDecorations(view)
Constructor ==
  /\ pc = "new"
  /\ BuildStart
  /\ UNCHANGED <<tree, ranges, decorations, updates>>
  /\ UNCHANGED <<other, editor, md>>

\* update.view after a document change: the tree is the same or has lost
\* its last node
Edits(t) == {t} \cup (IF Len(t) = 0 THEN {} ELSE {SubSeq(t, 1, Len(t) - 1)})

\* update.view after a viewport change: the visible ranges are the same or
\* have lost their first or last range
Scrolls(rs) ==
  {rs} \cup (IF Len(rs) = 0 THEN {}
             ELSE {SubSeq(rs, 2, Len(rs)), SubSeq(rs, 1, Len(rs) - 1)})

\* update(update) with docChanged or viewportChanged set
Update ==
  /\ pc = "idle"
  /\ updates < MaxUpdates
  /\ \E docChanged \in BOOLEAN, viewportChanged \in BOOLEAN :
       /\ docChanged \/ viewportChanged
       /\ tree' \in (IF docChanged THEN Edits(tree) ELSE {tree})
       /\ ranges' \in (IF viewportChanged THEN Scrolls(ranges) ELSE {ranges})
       /\ BuildStart
  /\ updates' = updates + 1
  /\ UNCHANGED decorations
  /\ UNCHANGED <<other, editor, md>>

\* update(update) with neither flag set: nothing is rebuilt
UpdateIgnored ==
  /\ pc = "idle"
  /\ updates < MaxUpdates
  /\ updates' = updates + 1
  /\ UNCHANGED <<tree, ranges, pc, decorations, builder, spans, ri, cur, calls>>
  /\ UNCHANGED <<other, editor, md>>

\* for (const { from, to } of view.visibleRanges) syntaxTree(..).iterate(..)
BeginRange ==
  /\ pc = "build" /\ cur = 0 /\ ri < Len(ranges)
  /\ ri' = ri + 1
  /\ cur' = FirstNode(tree)
  /\ UNCHANGED <<tree, ranges, pc, decorations, builder, spans, updates, calls>>
  /\ UNCHANGED <<other, editor, md>>

\* iterate calls enter for a node in range, every add succeeds
Enter ==
  /\ pc = "build" /\ cur # 0
  /\ InRange(tree[cur], ranges[ri])
  /\ LET nd == tree[cur]
         r  == AddAll(builder, spans, EnterAdds(cur, nd.props, nd.from, nd.to), 1)
     IN /\ r.ok
        /\ builder' = r.layers
        /\ spans' = r.spans
  /\ cur' = AfterEnter(tree, cur)
  /\ UNCHANGED <<tree, ranges, pc, decorations, ri, updates, calls>>
  /\ UNCHANGED <<other, editor, md>>

\* iterate calls enter for a node in range, a builder.add throws
EnterThrows ==
  /\ pc = "build" /\ cur # 0
  /\ InRange(tree[cur], ranges[ri])
  /\ LET nd == tree[cur]
         r  == AddAll(builder, spans, EnterAdds(cur, nd.props, nd.from, nd.to), 1)
     IN /\ ~r.ok
        /\ builder' = r.layers
        /\ spans' = r.spans
  /\ pc' = "failed"
  /\ cur' = 0
  /\ UNCHANGED <<tree, ranges, decorations, ri, updates, calls>>
  /\ UNCHANGED <<other, editor, md>>

\* iterate does not enter a node out of range, nor its children
Skip ==
  /\ pc = "build" /\ cur # 0
  /\ ~InRange(tree[cur], ranges[ri])
  /\ cur' = AfterSkip(tree, cur)
  /\ UNCHANGED <<tree, ranges, pc, decorations, builder, spans, ri, updates, calls>>
  /\ UNCHANGED <<other, editor, md>>

\* return builder.finish(), assigned to this.decorations by the caller
Finish ==
  /\ pc = "build" /\ cur = 0 /\ ri = Len(ranges)
  /\ decorations' = spans
  /\ pc' = "idle"
  /\ UNCHANGED <<tree, ranges, builder, spans, ri, cur, updates, calls>>
  /\ UNCHANGED <<other, editor, md>>

Next ==
  \/ Constructor
  \/ BeginRange
  \/ Enter
  \/ EnterThrows
  \/ Skip
  \/ Finish

Spec == Init /\ [][Next]_vars

\* the plugin together with the host that sends it update notifications
\* (the host's parser produces trees without defects)
InitHost == InitOver(HostPalettes, MaxNodes, 0, RangeLists)

NextHost ==
  \/ Next
  \/ Update
  \/ UpdateIgnored

SpecHost == InitHost /\ [][NextHost]_vars

\* the host's parser at work: the tree of update.state has one node more than
\* the tree of update.startState, the document being the same
Reparses(t) ==
  IF Len(t) >= MaxNodes THEN {}
  ELSE { u \in { Append(t, nd) :
                   nd \in UNION { NodeRecs(pal, MaxNodes) : pal \in HostPalettes } } :
           PreOrder(u) /\ Defects(u) = 0 }

\* update(update) of a transaction that carries parser work only: neither
\* docChanged nor viewportChanged is set, the test of line 16 fails
UpdateReparsed ==
  /\ pc = "idle"
  /\ updates < MaxUpdates
  /\ tree' \in Reparses(tree)
  /\ updates' = updates + 1
  /\ UNCHANGED <<ranges, pc, decorations, builder, spans, ri, cur, calls>>
  /\ UNCHANGED <<other, editor, md>>

NextParse ==
  \/ NextHost
  \/ UpdateReparsed

SpecParse == InitHost /\ [][NextParse]_vars

\* ---------------------------------------------- a second call in flight
\* one step of the buildDecorations call c: the next visible range, enter or
\* skip of the node under the cursor, or the return
CallNext(c) ==
  IF c.cur = 0
  THEN IF c.ri < Len(c.ranges)
       THEN [c EXCEPT !.ri = c.ri + 1, !.cur = FirstNode(c.tree)]
       ELSE [c EXCEPT !.decorations = c.spans, !.pc = "idle"]
  ELSE IF InRange(c.tree[c.cur], c.ranges[c.ri])
       THEN LET nd == c.tree[c.cur]
                r  == AddAll(c.builder, c.spans,
                             EnterAdds(c.cur, nd.props, nd.from, nd.to), 1)
            IN IF r.ok
               THEN [c EXCEPT !.builder = r.layers, !.spans = r.spans,
                              !.cur = AfterEnter(c.tree, c.cur)]
               ELSE [c EXCEPT !.builder = r.layers, !.spans = r.spans,
                              !.pc = "failed", !.cur = 0]
       ELSE [c EXCEPT !.cur = AfterSkip(c.tree, c.cur)]

\* a second call that goes on with the builder of the first call
OtherStart_SharedBuilder ==
  /\ other.pc = "none"
  /\ \E t \in Edits(tree), rs \in Scrolls(ranges) :
       other' = [tree |-> t, ranges |-> rs, pc |-> "build", decorations |-> << >>,
                 builder |-> IF builder = << >> THEN NewBuilder ELSE builder,
                 spans |-> spans, ri |-> 0, cur |-> 0, mixed |-> FALSE]
  /\ UNCHANGED <<tree, ranges, pc, decorations, builder, spans, ri, cur,
                 updates, calls, editor, md>>

\* the host issues buildDecorations for another snapshot of the view, before,
\* during or after the first call: the call gets a builder of its own
OtherStart ==
  /\ other.pc = "none"
  /\ \E t \in Edits(tree), rs \in Scrolls(ranges) :
       other' = [tree |-> t, ranges |-> rs, pc |-> "build", decorations |-> << >>,
                 builder |-> NewBuilder,
                 spans |-> << >>, ri |-> 0, cur |-> 0, mixed |-> FALSE]
  /\ UNCHANGED <<tree, ranges, pc, decorations, builder, spans, ri, cur,
                 updates, calls, editor, md>>

\* the second call takes a step; mixed notes that it did so while the first
\* call was inside a walk
OtherStep ==
  /\ other.pc = "build"
  /\ other' = [CallNext(other) EXCEPT
                 !.mixed = other.mixed \/ (pc = "build" /\ ri > 0)]
  /\ UNCHANGED <<tree, ranges, pc, decorations, builder, spans, ri, cur,
                 updates, calls, editor, md>>

\* two calls whose steps interleave (trees without defects, views that show
\* text)
InitTwo == InitOver(Palettes, MaxNodes, 0, Viewports)

NextTwo ==
  \/ Next
  \/ OtherStart
  \/ OtherStep

SpecTwo == InitTwo /\ [][NextTwo]_vars

\* the plugin on nested inline documents
InitWide == InitOver(WidePalettes, MaxNodes + 1, MaxDefects, RangeLists)

SpecWide == InitWide /\ [][Next]_vars

\* the plugin on documents with unstyled node types (trees without defects,
\* views that show text)
InitPlain == InitOver(PlainPalettes, MaxNodes + 1, 0, Viewports)

SpecPlain == InitPlain /\ [][Next]_vars

\* the plugin on block documents
InitBlocks == InitOver(BlockPalettes, MaxNodes + 1, MaxDefects, RangeLists)

SpecBlocks == InitBlocks /\ [][Next]_vars

\* ====================================================== the editor component
\* Texts are sequences of characters.
CR == "\r"
LF == "\n"

\* the texts of at most n characters of cs
RECURSIVE Texts(_, _)
Texts(cs, n) ==
  IF n = 0 THEN { << >> }
  ELSE { << >> } \cup { <<c>> \o t : c \in cs, t \in Texts(cs, n - 1) }

\* What a backend stores of a string: CodeMirror splits the text it is given
\* at \r\n, \r and \n and joins its lines with \n (doc.toString()); the value
\* a textarea gives back has its line breaks normalized the same way.
RECURSIVE Normalize(_)
Normalize(t) ==
  IF t = << >> THEN << >>
  ELSE IF t[1] = CR
       THEN <<LF>> \o Normalize(IF Len(t) >= 2 /\ t[2] = LF
                                 THEN SubSeq(t, 3, Len(t)) ELSE Tail(t))
       ELSE <<t[1]>> \o Normalize(Tail(t))

Max(a, b) == IF a >= b THEN a ELSE b

Clamp(i, n) == IF i < 0 THEN 0 ELSE IF i > n THEN n ELSE i

\* String.prototype.substring(a, b), offsets counted from 0: both offsets are
\* clamped to the string, and swapped when a > b
Substring(t, a, b) ==
  LET x == Clamp(a, Len(t))
      y == Clamp(b, Len(t))
  IN SubSeq(t, (IF x <= y THEN x ELSE y) + 1, IF x <= y THEN y ELSE x)

\* String.prototype.indexOf(c, from): -1 when c does not occur from there on
IndexOf(t, c, from) ==
  LET S == {i \in Clamp(from, Len(t))..(Len(t) - 1) : t[i + 1] = c}
  IN IF S = {} THEN -1 ELSE CHOOSE i \in S : \A j \in S : i <= j

\* String.prototype.lastIndexOf(c, from): a negative from counts as 0
LastIndexOf(t, c, from) ==
  LET S == {i \in 0..Clamp(from, Len(t) - 1) : i < Len(t) /\ t[i + 1] = c}
  IN IF S = {} THEN -1 ELSE CHOOSE i \in S : \A j \in S : j <= i

\* \s and \d of the regular expressions
IsSpace(c) == c \in {" ", "\t", LF, CR}
IsDigit(c) == c \in {"0", "1", "2", "3", "4", "5", "6", "7", "8", "9"}

\* the offset of the first character of t at or after i that is no \s
RECURSIVE SkipSpace(_, _)
SkipSpace(t, i) ==
  IF i < Len(t) /\ IsSpace(t[i + 1]) THEN SkipSpace(t, i + 1) ELSE i

RECURSIVE SkipDigits(_, _)
SkipDigits(t, i) ==
  IF i < Len(t) /\ IsDigit(t[i + 1]) THEN SkipDigits(t, i + 1) ELSE i

\* the character of t at offset i, "" past the end
At(t, i) == IF i >= 0 /\ i < Len(t) THEN t[i + 1] ELSE ""

\* /^\s*([-*]|\d+\.)\s/.test(lineText)
IsListItem(lineText) ==
  LET i == SkipSpace(lineText, 0)
      j == SkipDigits(lineText, i)
  IN \/ At(lineText, i) \in {"-", "*"} /\ IsSpace(At(lineText, i + 1))
     \/ j > i /\ At(lineText, j) = "." /\ IsSpace(At(lineText, j + 1))

\* /^\s*[-*]\s+\[[ xX]\]\s/.test(lineText)
IsTodoItem(lineText) ==
  LET i == SkipSpace(lineText, 0)
      j == SkipSpace(lineText, i + 1)
  IN /\ At(lineText, i) \in {"-", "*"}
     /\ j > i + 1
     /\ At(lineText, j) = "["
     /\ At(lineText, j + 1) \in {" ", "x", "X"}
     /\ At(lineText, j + 2) = "]"
     /\ IsSpace(At(lineText, j + 3))

\* lineText.replace(/^  /, '')
Unindent(lineText) ==
  IF At(lineText, 0) = " " /\ At(lineText, 1) = " "
  THEN SubSeq(lineText, 3, Len(lineText)) ELSE lineText

\* ------------------------------------------------ the imperative handle
SelFrom(e) == IF e.anchor <= e.head THEN e.anchor ELSE e.head
SelTo(e) == IF e.anchor <= e.head THEN e.head ELSE e.anchor

\* insertText(text), lines 47-71.  view.dispatch throws a RangeError, and
\* changes nothing, when the change starts before the document or the new
\* selection ends after the new document.
InsertTextOn(e, text) ==
  IF e.view
  THEN LET pos    == e.head
           newDoc == Substring(e.doc, 0, pos) \o Normalize(text)
                     \o Substring(e.doc, pos, Len(e.doc))
           target == pos + Len(text)
       IN IF pos < 0 \/ target > Len(newDoc)
          THEN [e EXCEPT !.threw = TRUE]
          ELSE [e EXCEPT !.doc = newDoc, !.anchor = target, !.head = target,
                         !.contentRef = newDoc]
  ELSE IF e.textarea
  THEN LET start == SelFrom(e)
           end   == SelTo(e)
           value == Normalize(Substring(e.doc, 0, start) \o text
                              \o Substring(e.doc, end, Len(e.doc)))
           caret   == Clamp(start + Len(text), Len(value))
       IN [e EXCEPT !.doc = value, !.anchor = caret, !.head = caret,
                    !.contentRef = value]
  ELSE e

\* setContent that stores the string as it is given
SetContentOn_Raw(e, text, caret) ==
  [e EXCEPT !.doc = IF e.view \/ e.textarea THEN text ELSE e.doc,
            !.contentRef = text]

\* setContent(text), lines 72-88.  caret is where CodeMirror maps the cursor
\* to when the whole document is replaced; a textarea puts it at the end.
SetContentOn(e, text, caret) ==
  IF e.view
  THEN [e EXCEPT !.doc = Normalize(text), !.anchor = caret, !.head = caret,
                 !.contentRef = Normalize(text)]
  ELSE IF e.textarea
  THEN [e EXCEPT !.doc = Normalize(text), !.anchor = Len(Normalize(text)),
                 !.head = Len(Normalize(text)), !.contentRef = text]
  ELSE [e EXCEPT !.contentRef = text]

\* getContent(), lines 89-96
GetContentOf(e) ==
  IF e.view THEN e.doc
  ELSE IF e.textarea THEN e.doc
  ELSE e.contentRef

\* ----------------------------------------------------- the Tab handlers
\* state.doc.lineAt(pos): the line that holds offset pos
LineAt(doc, pos) ==
  LET B == {i \in 0..(pos - 1) : At(doc, i) = LF}
      A == {i \in pos..(Len(doc) - 1) : At(doc, i) = LF}
      f == IF B = {} THEN 0 ELSE (CHOOSE i \in B : \A j \in B : j <= i) + 1
      t == IF A = {} THEN Len(doc) ELSE CHOOSE i \in A : \A j \in A : i <= j
  IN [from |-> f, to |-> t, text |-> SubSeq(doc, f + 1, t)]

\* keydown of EditorView.domEventHandlers with event.key = 'Tab', lines 178-216.
\* lineAt throws for an offset before the document; dispatch checks the new
\* selection against the end of the new document only, so that a selection
\* before offset 0 gets into the state.
KeydownCM(e, shiftKey) ==
  LET from     == SelFrom(e)
      to       == SelTo(e)
      line     == LineAt(e.doc, from)
      lineText == line.text
      isItem   == IsListItem(lineText) \/ IsTodoItem(lineText)
      indent   == IF shiftKey THEN -2 ELSE 2
      newText  == IF indent > 0 THEN <<" ", " ">> \o lineText
                  ELSE Unindent(lineText)
      newDoc   == IF isItem
                  THEN Substring(e.doc, 0, line.from) \o newText
                       \o Substring(e.doc, line.to, Len(e.doc))
                  ELSE Substring(e.doc, 0, from) \o <<" ", " ">>
                       \o Substring(e.doc, to, Len(e.doc))
      target   == IF isItem THEN from + indent ELSE from + 2
  IN IF from < 0 \/ target > Len(newDoc)
     THEN [e EXCEPT !.threw = TRUE]
     ELSE [e EXCEPT !.doc = newDoc, !.anchor = target, !.head = target,
                    !.contentRef = newDoc]

\* the keydown listener of the textarea with event.key = 'Tab', lines 284-324
\* (and 363-403).  A negative selectionStart is an unsigned long past the end
\* of the text: the cursor lands at the end.
KeydownTextarea(e, shiftKey) ==
  LET start     == SelFrom(e)
      end       == SelTo(e)
      value     == e.doc
      lineStart == LastIndexOf(value, LF, start - 1) + 1
      lineEnd   == IndexOf(value, LF, start)
      lineStop  == IF lineEnd = -1 THEN Len(value) ELSE lineEnd
      lineText  == Substring(value, lineStart, lineStop)
      isItem    == IsListItem(lineText) \/ IsTodoItem(lineText)
      indent    == IF shiftKey THEN -2 ELSE 2
      newLine   == IF indent > 0 THEN <<" ", " ">> \o lineText
                   ELSE Unindent(lineText)
      newValue  == IF isItem
                   THEN Substring(value, 0, lineStart) \o newLine
                        \o Substring(value, lineStop, Len(value))
                   ELSE Substring(value, 0, start) \o <<" ", " ">>
                        \o Substring(value, end, Len(value))
      target    == IF isItem THEN start + indent ELSE start + 2
      caret       == IF target < 0 THEN Len(newValue) ELSE Clamp(target, Len(newValue))
  IN [e EXCEPT !.doc = newValue, !.anchor = caret, !.head = caret,
               !.contentRef = newValue]

\* ------------------------------------------------- the editor's actions
\* the variables of the decoration plugin
plugin == <<tree, ranges, pc, decorations, builder, spans, ri, cur, updates, calls>>

\* what setupEditor finds: the app object, an active Markdown view that
\* exposes its cm instance, and whether creating the editor throws
Envs ==
  { [app |-> FALSE, activeCM |-> FALSE, creation |-> "ok"],
    [app |-> TRUE,  activeCM |-> FALSE, creation |-> "ok"],
    [app |-> TRUE,  activeCM |-> TRUE,  creation |-> "ok"],
    [app |-> TRUE,  activeCM |-> TRUE,  creation |-> "throws"] }

\* the strings the parent passes to insertText and setContent
Args == { <<"b">>, <<LF>>, <<"b", CR, LF>> }

\* the characters of the documents the calls are made on
ApiAlphabets == { {"a", LF} }

\* the characters of the documents the keys are pressed on
KeyAlphabets == { {"-", " ", "a", LF}, {"1", ".", " ", LF} }

\* the component has rendered with some initialContent; its effects have not
\* run yet
InitEditorOver(alphabets) ==
  /\ tree = << >> /\ ranges = << >> /\ pc = "new"
  /\ decorations = << >> /\ builder = << >> /\ spans = << >>
  /\ ri = 0 /\ cur = 0 /\ updates = 0 /\ calls = 0
  /\ other = NoCall
  /\ md = NoMd
  /\ \E cs \in alphabets, env \in Envs :
       \E t \in Texts(cs, MaxLen) :
         editor = [NoEditor EXCEPT !.stage = "rendered",
                     !.app = env.app, !.activeCM = env.activeCM,
                     !.creation = env.creation,
                     !.initialContent = t, !.contentRef = t]

\* the entry hist gets for an operation on the editor e: the operation, its
\* argument, what it returned, and the backend, document and selection it
\* found
Entry(e, op, arg, out) ==
  [op |-> op, arg |-> arg, out |-> out,
   view |-> e.view, textarea |-> e.textarea,
   doc |-> e.doc, anchor |-> e.anchor, head |-> e.head]

\* the editor e as a handler finds it: threw tells of the last handler only
Fresh(e) == [e EXCEPT !.threw = FALSE]

\* the number of calls and key presses the editor e has received
Ops(e) == Cardinality({k \in 1..Len(e.hist) : e.hist[k].op # "setup"})

\* setupEditor, lines 141-407
Setup ==
  /\ editor.stage = "rendered"
  /\ LET e == [editor EXCEPT !.stage = "set up",
                 !.hist = Append(editor.hist, Entry(editor, "setup", << >>, << >>))]
     IN editor' =
          IF ~e.app
          THEN e
          ELSE IF e.activeCM /\ e.creation = "ok"
          THEN [e EXCEPT !.view = TRUE, !.isReady = TRUE,
                         !.doc = Normalize(e.initialContent),
                         !.anchor = 0, !.head = 0]
          ELSE [e EXCEPT !.textarea = TRUE, !.isReady = TRUE,
                         !.doc = Normalize(e.initialContent),
                         !.anchor = Len(Normalize(e.initialContent)),
                         !.head = Len(Normalize(e.initialContent))]
  /\ UNCHANGED <<plugin, other, md>>

\* the effect of lines 425-437, run after isReady has become true
Sync ==
  /\ editor.stage = "set up" /\ editor.isReady /\ ~editor.synced
  /\ Ops(editor) < MaxOps
  /\ \E caret \in {0, Len(Normalize(editor.initialContent))} :
       LET e == [editor EXCEPT !.synced = TRUE, !.threw = FALSE,
                   !.hist = Append(editor.hist, Entry(editor, "sync", << >>, << >>))]
       IN editor' =
            IF e.contentRef = e.initialContent THEN e
            ELSE IF e.view
            THEN [e EXCEPT !.doc = Normalize(e.initialContent),
                           !.anchor = caret, !.head = caret,
                           !.contentRef = e.initialContent]
            ELSE IF e.textarea
            THEN [e EXCEPT !.doc = Normalize(e.initialContent),
                           !.anchor = Len(Normalize(e.initialContent)),
                           !.head = Len(Normalize(e.initialContent)),
                           !.contentRef = e.initialContent]
            ELSE [e EXCEPT !.contentRef = e.initialContent]
  /\ UNCHANGED <<plugin, other, md>>

\* the cleanup of the setup effect, lines 411-421
Cleanup ==
  /\ editor.stage = "set up"
  /\ Ops(editor) < MaxOps
  /\ editor' = [editor EXCEPT !.stage = "cleaned", !.threw = FALSE,
                  !.view = FALSE, !.textarea = FALSE,
                  !.doc = << >>, !.anchor = 0, !.head = 0,
                  !.hist = Append(editor.hist, Entry(editor, "cleanup", << >>, << >>))]
  /\ UNCHANGED <<plugin, other, md>>

\* the user places the cursor or selects text, before anything else is done
\* with the editor (a textarea reports its selection as start <= end)
Select ==
  /\ editor.stage = "set up" /\ (editor.view \/ editor.textarea)
  /\ Ops(editor) = 0
  /\ \E a \in 0..Len(editor.doc), h \in 0..Len(editor.doc) :
       /\ editor.textarea => a <= h
       /\ editor' = [editor EXCEPT !.anchor = a, !.head = h]
  /\ UNCHANGED <<plugin, other, md>>

\* the parent calls insertText(text)
InsertText ==
  /\ editor.stage # "none"
  /\ Ops(editor) < MaxOps
  /\ \E text \in Args :
       editor' = [InsertTextOn(Fresh(editor), text) EXCEPT
                   !.hist = Append(editor.hist, Entry(editor, "insertText", text, << >>))]
  /\ UNCHANGED <<plugin, other, md>>

\* the parent calls setContent(text)
SetContent ==
  /\ editor.stage # "none"
  /\ Ops(editor) < MaxOps
  /\ \E text \in Args : \E caret \in {0, Len(Normalize(text))} :
       editor' = [SetContentOn(Fresh(editor), text, caret) EXCEPT
                   !.hist = Append(editor.hist, Entry(editor, "setContent", text, << >>))]
  /\ UNCHANGED <<plugin, other, md>>

\* the parent calls getContent()
GetContent ==
  /\ editor.stage # "none"
  /\ Ops(editor) < MaxOps
  /\ editor' = [Fresh(editor) EXCEPT
                  !.hist = Append(editor.hist,
                                  Entry(editor, "getContent", << >>, GetContentOf(editor)))]
  /\ UNCHANGED <<plugin, other, md>>

\* the user presses Tab or Shift+Tab in the editor
KeyTab ==
  /\ editor.stage = "set up" /\ (editor.view \/ editor.textarea)
  /\ Ops(editor) < MaxOps
  /\ \E shiftKey \in BOOLEAN :
       editor' = [(IF editor.view THEN KeydownCM(Fresh(editor), shiftKey)
                   ELSE KeydownTextarea(Fresh(editor), shiftKey)) EXCEPT
                   !.hist = Append(editor.hist,
                                   Entry(editor, IF shiftKey THEN "Shift+Tab" ELSE "Tab",
                                         << >>, << >>))]
  /\ UNCHANGED <<plugin, other, md>>

\* the component and the calls of its parent
InitApi == InitEditorOver(ApiAlphabets)

NextApi ==
  \/ Setup
  \/ Sync
  \/ Cleanup
  \/ Select
  \/ InsertText
  \/ SetContent
  \/ GetContent

SpecApi == InitApi /\ [][NextApi]_vars

\* the component and the Tab key
InitKeys == InitEditorOver(KeyAlphabets)

NextKeys ==
  \/ Setup
  \/ Select
  \/ KeyTab

SpecKeys == InitKeys /\ [][NextKeys]_vars

\* ================================================== parseMarkedToHtml
\* Strings are sequences of characters; the pieces of markup that replaceMd
\* writes are single elements of the sequence.

\* the strings the image test of lines 18 and 37 looks for
ImageWords ==
  { <<"j", "p", "e", "g">>, <<"j", "p", "g">>, <<"g", "i", "f">>,
    <<"p", "n", "g">>, <<"s", "v", "g">>, <<"b", "m", "p">>,
    <<"w", "e", "p", "g">> }

\* String.prototype.indexOf(w): first offset where the string w occurs, or -1
IndexOfString(t, w) ==
  LET S == {i \in 0..(Len(t) - Len(w)) : SubSeq(t, i + 1, i + Len(w)) = w}
  IN IF S = {} THEN -1 ELSE CHOOSE i \in S : \A j \in S : i <= j

\* /(jpeg|jpg|gif|png|svg|bmp|wepg)/g.test(line), on a fresh expression
IsImage(line) == \E w \in ImageWords : IndexOfString(line, w) # -1

\* String.prototype.replace(w, r) with a string pattern: the first
\* occurrence of w is replaced (r holds no $)
ReplaceFirst(t, w, r) ==
  LET i == IndexOfString(t, w)
  IN IF i = -1 THEN t
     ELSE SubSeq(t, 1, i) \o r \o SubSeq(t, i + Len(w) + 1, Len(t))

\* no match
Null == [index |-> -1, end |-> -1, g1 |-> << >>, g3 |-> << >>]

Least(S) == CHOOSE x \in S : \A y \in S : x <= y
Greatest(S) == CHOOSE x \in S : \A y \in S : y <= x

\* /\[\[([^\]]+)\]\]/ tried at offset i, the first "]" after it being at j:
\* [^\]]+ runs up to that "]"
InternalTry(t, i, j) ==
  IF /\ At(t, i) = "[" /\ At(t, i + 1) = "["
     /\ j > i + 2 /\ At(t, j + 1) = "]"
  THEN [index |-> i, end |-> j + 2, g1 |-> Substring(t, i + 2, j), g3 |-> << >>]
  ELSE Null

InternalAt(t, i) == InternalTry(t, i, IndexOf(t, "]", i + 2))

\* the lengths the third group of EXRERNAL_MD_REG can have when it starts at
\* offset g: a run without "]" that is followed by one character other than
\* a line break and by "md)"
GroupThree(t, g) ==
  { n \in 1..((IF IndexOf(t, "]", g) = -1 THEN Len(t) ELSE IndexOf(t, "]", g)) - g) :
      /\ At(t, g + n) \notin {"", LF, CR}
      /\ At(t, g + n + 1) = "m" /\ At(t, g + n + 2) = "d"
      /\ At(t, g + n + 3) = ")" }

\* /\[([^\]]+)\]\((([^\]]+).md)\)/ tried at offset i, the first "]" after it
\* being at j and N the lengths its third group can have: the first group
\* runs up to that "]", the third group is the longest possible
ExternalTry(t, i, j, N) ==
  IF /\ At(t, i) = "[" /\ j > i + 1 /\ At(t, j + 1) = "(" /\ N # {}
  THEN [index |-> i, end |-> j + Greatest(N) + 6,
        g1 |-> Substring(t, i + 1, j),
        g3 |-> Substring(t, j + 2, j + 2 + Greatest(N))]
  ELSE Null

ExternalAt(t, i) ==
  ExternalTry(t, i, IndexOf(t, "]", i + 1),
              GroupThree(t, IndexOf(t, "]", i + 1) + 2))

\* RegExp.prototype.exec from lastIndex on: the match at the first offset
\* that has one
InternalFirst(t, S) == IF S = {} THEN Null ELSE InternalAt(t, Least(S))

InternalExec(t, lastIndex) ==
  InternalFirst(t, {i \in lastIndex..(Len(t) - 1) : InternalAt(t, i) # Null})

ExternalFirst(t, S) == IF S = {} THEN Null ELSE ExternalAt(t, Least(S))

ExternalExec(t, lastIndex) ==
  ExternalFirst(t, {i \in lastIndex..(Len(t) - 1) : ExternalAt(t, i) # Null})

\* lastIndex of a global expression after exec or test gave m
LastIndexAfter(m) == IF m = Null THEN 0 ELSE m.end

\* String.prototype.match with a global expression: every match, each search
\* starting where the previous match, m, ended
RECURSIVE InternalMatchesFrom(_, _)
InternalMatchesFrom(t, m) ==
  IF m = Null THEN << >>
  ELSE << Substring(t, m.index, m.end) >>
       \o InternalMatchesFrom(t, InternalExec(t, m.end))

InternalMatches(t, from) == InternalMatchesFrom(t, InternalExec(t, from))

RECURSIVE ExternalMatchesFrom(_, _)
ExternalMatchesFrom(t, m) ==
  IF m = Null THEN << >>
  ELSE << Substring(t, m.index, m.end) >>
       \o ExternalMatchesFrom(t, ExternalExec(t, m.end))

ExternalMatches(t, from) == ExternalMatchesFrom(t, ExternalExec(t, from))

\* marked.parse on a paragraph of text that holds no markdown of marked's
\* own (a wiki link is none; a link whose path holds a space is none)
Marked(markedStr) ==
  <<"<", "p", ">">> \o markedStr \o <<"<", "/", "p", ">", LF>>

\* internalContent.split('|'), its first two parts
SplitLink(content) == Substring(content, 0, IndexOf(content, "|", 0))

SplitRest(content, a, b) ==
  Substring(content, a + 1, IF b = -1 THEN Len(content) ELSE b)

SplitLabel(content) ==
  SplitRest(content, IndexOf(content, "|", 0),
            IndexOf(content, "|", IndexOf(content, "|", 0) + 1))

\* replaceMd(internalLink, label), lines 52-72; resolved holds the link paths
\* metadataCache.getFirstLinkpathDest finds a file for; an empty label stands
\* for '' and for undefined
ReplaceMd(resolved, internalLink, label) ==
  <<"<a data-href=\"">> \o internalLink
    \o <<"\" data-type=\"link\" data-filepath=\"">> \o internalLink
    \o << IF internalLink \in resolved
          THEN "\" class=\"internal-link\">"
          ELSE "\" class=\"internal-link is-unresolved\">" >>
    \o (IF label # << >> THEN label ELSE internalLink)
    \o <<"</a>">>

\* the body of the loop of lines 17-30 for line = internalMD[i], content
\* being what getContentFromInternalLink gives for it
InternalStep(resolved, htmlText, newHtmlText, line, content) ==
  IF IsImage(line) THEN newHtmlText
  ELSE IF IndexOf(content, "|", 0) # -1
  THEN ReplaceFirst(htmlText, line,
         ReplaceMd(resolved, SplitLink(content), SplitLabel(content)))
  ELSE ReplaceFirst(newHtmlText, line, ReplaceMd(resolved, content, << >>))

\* the loop of lines 17-30 from internalMD[i] on
RECURSIVE InternalLoop(_, _, _, _, _)
InternalLoop(resolved, htmlText, newHtmlText, internalMD, i) ==
  IF i > Len(internalMD) THEN newHtmlText
  ELSE InternalLoop(resolved, htmlText,
         InternalStep(resolved, htmlText, newHtmlText, internalMD[i],
                      InternalExec(internalMD[i], 0).g1),
         internalMD, i + 1)

\* getLabelFromExternalLink(line), line 76: EXRERNAL_MD_REG.exec(line), the
\* module's global expression, from its lastIndex on
LabelExec(line, lastIndex) == ExternalExec(line, lastIndex)

\* the body of the loop of lines 36-43 for line = externalMD[i]; link is
\* what getContentFromExternalLink gives for it and m the match of
\* getLabelFromExternalLink; acc holds newHtmlText and the lastIndex of the
\* two expressions
ExternalStep(resolved, htmlText, acc, line, link, m) ==
  IF IsImage(line) THEN acc
  ELSE [out |-> ReplaceFirst(htmlText, line, ReplaceMd(resolved, link, m.g1)),
        internal |-> acc.internal,
        external |-> LastIndexAfter(m)]

\* the loop of lines 36-43 from externalMD[i] on
RECURSIVE ExternalLoop(_, _, _, _, _)
ExternalLoop(resolved, htmlText, acc, externalMD, i) ==
  IF i > Len(externalMD) THEN acc
  ELSE ExternalLoop(resolved, htmlText,
         ExternalStep(resolved, htmlText, acc, externalMD[i],
                      ExternalExec(externalMD[i], 0).g3,
                      LabelExec(externalMD[i], acc.external)),
         externalMD, i + 1)

\* lines 14-31: test searches from lastIndex on; match starts from 0
InternalPart(st, htmlText) ==
  IF InternalExec(htmlText, st.internal) # Null
  THEN InternalLoop(st.resolved, htmlText, htmlText,
                    InternalMatches(htmlText, 0), 1)
  ELSE htmlText

\* lines 33-45, newHtmlText being what lines 14-31 left: the string returned
\* and the lastIndex left in the two expressions (a failed test and a match
\* both leave 0)
ExternalPart(st, htmlText, newHtmlText) ==
  IF ExternalExec(htmlText, st.external) # Null
  THEN ExternalLoop(st.resolved, htmlText,
                    [out |-> newHtmlText, internal |-> 0, external |-> 0],
                    ExternalMatches(htmlText, 0), 1)
  ELSE [out |-> newHtmlText, internal |-> 0, external |-> 0]

\* parseMarkedToHtml(markedStr, memoid), lines 8-50, on the module state st:
\* the string it returns and the lastIndex it leaves in the two expressions
ParseMarkedToHtml(st, markedStr, memoid) ==
  IF memoid
  THEN ExternalPart(st, Marked(markedStr), InternalPart(st, Marked(markedStr)))
  ELSE [out |-> Marked(markedStr),
        internal |-> st.internal, external |-> st.external]

\* the pieces the memos are written with: wiki links without and with a
\* label, markdown links to a note, an embedded image
Pieces ==
  { <<"[", "[", "a", "]", "]">>,
    <<"[", "[", "b", "|", "a", "]", "]">>,
    <<"[", "a", "]", "(", "b", " ", "c", ".", "m", "d", ")">>,
    <<"[", "b", "]", "(", "a", " ", "c", ".", "m", "d", ")">>,
    <<"[", "[", "a", ".", "p", "n", "g", "]", "]">> }

\* memos of at most n pieces, a space between two pieces
RECURSIVE Memos(_)
Memos(n) ==
  IF n = 0 THEN { << >> }
  ELSE Pieces \cup { x \o <<" ">> \o y : x \in Pieces, y \in Memos(n - 1) \ {<< >>} }

\* the link paths the metadata cache may resolve
Caches == { {}, { <<"a">> }, { <<"b", " ", "c">> } }

\* the module has been loaded; the vault has some notes
InitMd ==
  /\ tree = << >> /\ ranges = << >> /\ pc = "new"
  /\ decorations = << >> /\ builder = << >> /\ spans = << >>
  /\ ri = 0 /\ cur = 0 /\ updates = 0 /\ calls = 0
  /\ other = NoCall
  /\ editor = NoEditor
  /\ \E r \in Caches : md = [NoMd EXCEPT !.resolved = r]

\* the module state after a call that gave r: hist gets the arguments, the
\* lastIndex the call found and what it returned
Called(st, markedStr, memoid, r) ==
  [st EXCEPT
     !.internal = r.internal, !.external = r.external,
     !.hist = Append(st.hist,
                [markedStr |-> markedStr, memoid |-> memoid,
                 external |-> st.external, out |-> r.out])]

\* a component renders a memo: parseMarkedToHtml(markedStr, memoid)
Parse ==
  /\ Len(md.hist) < MaxCalls
  /\ \E markedStr \in Memos(MaxLinks), memoid \in BOOLEAN :
       md' = Called(md, markedStr, memoid,
                    ParseMarkedToHtml(md, markedStr, memoid))
  /\ UNCHANGED <<plugin, other, editor>>

NextMd == Parse

SpecMd == InitMd /\ [][NextMd]_vars

\* ================================================================ claims
\* a call has returned: decorations is the list it returned
Returned == pc = "idle"

\* half-open ranges [from, to) that share an offset
Intersects(nd, r) == nd.from < r.to /\ r.from < nd.to

\* the style classes enter maps node i to
MappedClasses(i) ==
  { a.class : a \in { EnterAdds(i, tree[i].props, tree[i].from, tree[i].to)[k] :
                        k \in 1..Len(EnterAdds(i, tree[i].props, tree[i].from, tree[i].to)) }
              \ { b \in { EnterAdds(i, tree[i].props, tree[i].from, tree[i].to)[k] :
                        k \in 1..Len(EnterAdds(i, tree[i].props, tree[i].from, tree[i].to)) } :
                    b.kind # "mark" } }

\* the positions of the returned list holding the styling span of class c
\* over the range of node i
StylingSpans(i, c) ==
  { k \in 1..Len(decorations) :
      decorations[k] = Mark(i, tree[i].from, tree[i].to, c) }

\* the positions of the returned list holding a hidden span of node i over [f, e)
HiddenSpans(i, f, e) ==
  { k \in 1..Len(decorations) : decorations[k] = Replace(i, f, e) }

\* C1 as stated: in a returned list every mapped node that intersects a visible
\* range has exactly one styling span of its class over its range.  Stated for
\* trees without defects, where it already fails.
C1_Coverage ==
  (Returned /\ Defects(tree) = 0) =>
    \A i \in 1..Len(tree) : \A c \in MappedClasses(i) :
      (\E k \in 1..Len(ranges) : Intersects(tree[i], ranges[k]))
        => Cardinality(StylingSpans(i, c)) = 1

Min(a, b) == IF a <= b THEN a ELSE b

C3_MalformedFails ==
  Returned =>
    \A i \in 1..Len(tree) :
      (tree[i].to < tree[i].from /\ tree[i].props # {})
        => \A k \in 1..Len(decorations) : decorations[k].node # i

\* C4 as stated: a span is returned only for a node that intersects a visible
\* range.  Stated for nodes of positive length that lie entirely before or
\* after every range.
C4_OnlyIntersecting ==
  Returned =>
    \A k \in 1..Len(decorations) :
      LET nd == tree[decorations[k].node]
      IN nd.from < nd.to =>
           \E j \in 1..Len(ranges) :
             ~(nd.to <= ranges[j].from \/ ranges[j].to <= nd.from)

\* C4 amended: a span is returned only for a node that intersects or touches
\* a visible range (node.from <= range.to and node.to >= range.from); a
\* mapped node that ends before the start or starts after the end of every
\* range contributes no span.
C4_OnlyTouching ==
  Returned =>
    \A k \in 1..Len(decorations) :
      \E j \in 1..Len(ranges) :
        /\ tree[decorations[k].node].from <= ranges[j].to
        /\ tree[decorations[k].node].to >= ranges[j].from

\* a call on a non-empty viewport has returned, and the tree has a mapped
\* node away from every visible range
C4_Witness ==
  /\ Returned
  /\ \E j \in 1..Len(ranges) : ranges[j].from < ranges[j].to
  /\ \E i \in 1..Len(tree) :
       /\ tree[i].props # {}
       /\ \A j \in 1..Len(ranges) :
            tree[i].to < ranges[j].from \/ ranges[j].to < tree[i].from

\* C5 as stated, for the decorate mode: buildDecorations is the one annotator,
\* so a decorate-mode call returns what it returns, and that list holds no
\* hidden span.
C5_DecorateNoHidden ==
  Returned =>
    \A k \in 1..Len(decorations) : decorations[k].kind # "replace"

\* node i intersects a visible range
Visible(i) == \E k \in 1..Len(ranges) : Intersects(tree[i], ranges[k])

\* the positions of the returned list holding a hidden span made for node i
HiddenOf(i) ==
  { k \in 1..Len(decorations) :
      decorations[k].kind = "replace" /\ decorations[k].node = i }

\* C6 as stated: a returned list has, for every visible inline-code node, one
\* cm-inline-code span over [from, to) and exactly two hidden spans,
\* [from, from + 1) and [to - 1, to).  Stated for trees without defects.
C6_InlineCode ==
  (Returned /\ Defects(tree) = 0) =>
    \A i \in 1..Len(tree) :
      ("inline-code" \in tree[i].props /\ Visible(i)) =>
        /\ Cardinality(StylingSpans(i, "cm-inline-code")) = 1
        /\ Cardinality(HiddenOf(i)) = 2
        /\ \E k1, k2 \in HiddenOf(i) :
             /\ k1 # k2
             /\ decorations[k1] = Replace(i, tree[i].from, tree[i].from + 1)
             /\ decorations[k2] = Replace(i, tree[i].to - 1, tree[i].to)

HeadingProps == <<"h1", "h2", "h3", "h4", "h5", "h6">>
HeadingClasses == <<"cm-h1", "cm-h2", "cm-h3", "cm-h4", "cm-h5", "cm-h6">>

\* C7 as stated: a returned list has, for every visible heading node of level
\* N with a heading-marker child, one cm-hN span over the heading's range, one
\* hidden span over the marker's range and no cm-hM span, M # N, of that node.
\* Stated for trees without defects and markers that are visible themselves.
C7_Heading ==
  (Returned /\ Defects(tree) = 0) =>
    \A i \in 1..Len(tree) : \A n \in 1..6 : \A j \in 1..Len(tree) :
      ( /\ tree[i].props \cap {HeadingProps[m] : m \in 1..6} = {HeadingProps[n]}
        /\ Visible(i)
        /\ tree[j].parent = i /\ "formatting-header" \in tree[j].props
        /\ Visible(j) ) =>
        /\ Cardinality(StylingSpans(i, HeadingClasses[n])) = 1
        /\ Cardinality(HiddenSpans(j, tree[j].from, tree[j].to)) = 1
        /\ \A m \in 1..6 : m # n => StylingSpans(i, HeadingClasses[m]) = {}

\* C8 as stated: a returned list has, for every visible list node, one
\* cm-list-1 span over the list's range and one hidden span per list-marker
\* node below it over that marker's range, and no other span of the list node.
\* Stated for trees without defects and markers that are visible themselves.
C8_List ==
  (Returned /\ Defects(tree) = 0) =>
    \A i \in 1..Len(tree) :
      ("list-1" \in tree[i].props /\ Visible(i)) =>
        /\ Cardinality(StylingSpans(i, "cm-list-1")) = 1
        /\ Cardinality({k \in 1..Len(decorations) : decorations[k].node = i}) = 1
        /\ \A j \in 1..Len(tree) :
             ( /\ i \in AncestorsOrSelf(tree, tree[j].parent)
               /\ tree[j].props \cap {"formatting-list-ol", "formatting-list-ul"} # {}
               /\ Visible(j) ) =>
               Cardinality(HiddenSpans(j, tree[j].from, tree[j].to)) = 1

\* C9 as stated: no returned list holds a span whose from is smaller than the
\* from of the span added just before it.
C9_NeverOutOfOrder ==
  Returned =>
    \A k \in 1..(Len(decorations) - 1) :
      decorations[k + 1].from >= decorations[k].from

\* C10: whatever calls came before, a call that returns has returned the list
\* a call on its tree and visible ranges returns, and a call that throws is a
\* call that throws on its tree and visible ranges.
C10_Deterministic ==
  /\ pc = "idle" =>
       /\ BuildDecorations(tree, ranges).ok
       /\ decorations = BuildDecorations(tree, ranges).spans
  /\ pc = "failed" => ~BuildDecorations(tree, ranges).ok

\* the second call of a plugin instance has returned a list of several spans
C10_Witness ==
  /\ pc = "idle"
  /\ calls = 2
  /\ Len(decorations) >= 2

\* C11 as stated: in a returned list every span of a node comes before every
\* span made for a node nested inside it (the list follows one pre-order walk
\* of the tree).  Stated for trees without defects.
C11_OuterFirst ==
  (Returned /\ Defects(tree) = 0) =>
    \A k \in 1..Len(decorations) : \A l \in 1..Len(decorations) :
      decorations[k].node \in AncestorsOrSelf(tree, tree[decorations[l].node].parent)
        => k < l

\* C12 as stated: in a returned list no two styling spans of the same class
\* share an offset.  Stated for trees without defects and calls with a single
\* visible range, where every node is entered at most once.
C12_NoOverlapByKind ==
  (Returned /\ Defects(tree) = 0 /\ Len(ranges) = 1) =>
    \A k \in 1..Len(decorations) : \A l \in 1..Len(decorations) :
      ( /\ k # l
        /\ decorations[k].kind = "mark" /\ decorations[l].kind = "mark"
        /\ decorations[k].class = decorations[l].class )
        => ~Intersects(decorations[k], decorations[l])

\* node i is not contained in the range of its parent node
Escapes(i) ==
  /\ tree[i].parent # 0
  /\ \/ tree[i].from < tree[tree[i].parent].from
     \/ tree[i].to > tree[tree[i].parent].to

\* C13 as stated, for its plainest case: no list is returned that holds a span
\* of a node which escapes its parent (the node's own range being valid,
\* from <= to, and the parent's too).
C13_EscapingFails ==
  Returned =>
    \A i \in 1..Len(tree) :
      ( /\ Escapes(i)
        /\ tree[i].from <= tree[i].to
        /\ tree[tree[i].parent].from <= tree[tree[i].parent].to )
        => \A k \in 1..Len(decorations) : decorations[k].node # i

\* the token classes of the recognized vocabulary
Vocabulary ==
  {"strong", "em", "strikethrough", "inline-code",
   "formatting-list-ol", "formatting-list-ul", "formatting-header",
   "formatting-quote", "formatting-code-block",
   "h1", "h2", "h3", "h4", "h5", "h6", "list-1", "quote", "code-block"}

\* node i carries no token class, or none of the vocabulary
Unmapped(t, i) == t[i].props \cap Vocabulary = {}

\* the nodes of t of a recognized kind
Kept(t) == {i \in 1..Len(t) : ~Unmapped(t, i)}

\* the nearest node of Kept(t) among p and its ancestors, 0 if none
RECURSIVE KeptAncestor(_, _)
KeptAncestor(t, p) ==
  IF p = 0 \/ p \in Kept(t) THEN p
  ELSE IF t[p].parent < p THEN KeptAncestor(t, t[p].parent) ELSE 0

\* the tree t without its unmapped nodes: the other nodes keep their order
\* and hang below their nearest remaining ancestor
Strip(t) ==
  [k \in 1..Cardinality(Kept(t)) |->
     LET i == CHOOSE j \in Kept(t) : Cardinality({m \in Kept(t) : m <= j}) = k
         p == KeptAncestor(t, t[i].parent)
     IN [t[i] EXCEPT !.parent = Cardinality({m \in Kept(t) : m <= p})]]

\* a list of spans without the note of the node each was made for
Bare(ss) ==
  [k \in 1..Len(ss) |-> [from |-> ss[k].from, to |-> ss[k].to,
                          kind |-> ss[k].kind, class |-> ss[k].class]]

\* C14: a node without token class, or with a class outside the vocabulary,
\* gets no span, and the call ends as it ends on the tree without these
\* nodes: it returns the same spans in the same order, or throws where the
\* call on that tree throws (trees without defects).
C14_UnsupportedSkipped ==
  /\ Returned =>
       /\ \A k \in 1..Len(decorations) : ~Unmapped(tree, decorations[k].node)
       /\ BuildDecorations(Strip(tree), ranges).ok
       /\ Bare(decorations) = Bare(BuildDecorations(Strip(tree), ranges).spans)
  /\ pc = "failed" => ~BuildDecorations(Strip(tree), ranges).ok

\* a call has returned spans for a node nested in a node without token class,
\* in a tree that also holds a node of a class outside the vocabulary
C14_Witness ==
  /\ Returned
  /\ \E i \in 1..Len(tree) : tree[i].props = {"comment"}
  /\ \E k \in 1..Len(decorations) :
       /\ tree[decorations[k].node].parent # 0
       /\ Unmapped(tree, tree[decorations[k].node].parent)

\* C15: whatever the interleaving of the steps of two calls on two snapshots,
\* each call that returns has returned the list a call on its own tree and
\* visible ranges returns when run alone, and each call that throws is a call
\* that throws when run alone.
C15_Independent ==
  /\ pc = "idle" => decorations = BuildDecorations(tree, ranges).spans
  /\ pc \in {"idle", "failed"} => (BuildDecorations(tree, ranges).ok <=> pc = "idle")
  /\ other.pc = "idle" =>
       other.decorations = BuildDecorations(other.tree, other.ranges).spans
  /\ other.pc \in {"idle", "failed"} =>
       (BuildDecorations(other.tree, other.ranges).ok <=> other.pc = "idle")

\* both calls have returned spans, for different snapshots, after steps of
\* the second call were taken in the middle of the first call's walk
C15_Witness ==
  /\ pc = "idle" /\ other.pc = "idle"
  /\ other.mixed
  /\ decorations # << >> /\ other.decorations # << >>
  /\ other.ranges # ranges

\* every visible range is empty (and there is at least one)
AllZeroLength ==
  /\ Len(ranges) > 0
  /\ \A j \in 1..Len(ranges) : ranges[j].from = ranges[j].to

\* the call has not thrown, has added no span and has returned no span
NoSpanNoError ==
  /\ pc # "failed"
  /\ spans = << >>
  /\ decorations = << >>

\* C16 as stated: on an empty tree, on an empty list of ranges and on ranges
\* that are all zero-length the call returns an empty list without error.
C16_EmptyInputs ==
  (Len(tree) = 0 \/ Len(ranges) = 0 \/ AllZeroLength) => NoSpanNoError

\* C16 amended: on an empty tree and on an empty list of ranges the call
\* returns an empty list without error; on ranges that are all zero-length
\* it does so when no mapped node contains or touches the offset of any of
\* them (node.from <= p <= node.to).
C16_EmptyOrUntouched ==
  ( \/ Len(tree) = 0
    \/ Len(ranges) = 0
    \/ /\ AllZeroLength
       /\ \A i \in 1..Len(tree) : \A j \in 1..Len(ranges) :
            ~Unmapped(tree, i) =>
              ~(tree[i].from <= ranges[j].from /\ ranges[j].from <= tree[i].to) )
  => NoSpanNoError

\* a call on a tree with a mapped node and on zero-length ranges only has
\* returned
C16_Witness ==
  /\ Returned
  /\ AllZeroLength
  /\ \E i \in 1..Len(tree) : ~Unmapped(tree, i)
  /\ decorations = << >>

\* C17 as stated: once setupEditor has run, exactly one backend is active
\* (the CodeMirror view or the fallback textarea, never both, never none) and
\* the editor is marked ready; in particular, without a CodeMirror view the
\* textarea is installed.
C17_Fallback ==
  editor.stage = "set up" =>
    /\ editor.isReady
    /\ editor.view # editor.textarea
    /\ ~editor.view => editor.textarea

\* what getContent() returned right after the k-th operation, when that is
\* known: the result of a getContent call that came next, or what a call
\* made now returns when nothing came after
ReadBack(k) ==
  IF k = Len(editor.hist) THEN { GetContentOf(editor) }
  ELSE IF editor.hist[k + 1].op = "getContent" THEN { editor.hist[k + 1].out }
  ELSE { }

\* C18 as stated: right after setContent(t), getContent() returns exactly t.
C18_RoundTrip ==
  \A k \in 1..Len(editor.hist) :
    editor.hist[k].op = "setContent" =>
      \A got \in ReadBack(k) : got = editor.hist[k].arg

\* C18 amended: right after setContent(t), getContent() returns t with every
\* \r\n and every other \r replaced by \n when a backend is active, and
\* exactly t when none is.
C18_RoundTripNormalized ==
  \A k \in 1..Len(editor.hist) :
    editor.hist[k].op = "setContent" =>
      \A got \in ReadBack(k) :
        got = IF editor.hist[k].view \/ editor.hist[k].textarea
              THEN Normalize(editor.hist[k].arg)
              ELSE editor.hist[k].arg

\* setContent of a text with a carriage return on a CodeMirror view that held
\* other text, then getContent
C18_Witness ==
  \E k \in 1..(Len(editor.hist) - 1) :
    /\ editor.hist[k].op = "setContent"
    /\ CR \in {editor.hist[k].arg[i] : i \in 1..Len(editor.hist[k].arg)}
    /\ editor.hist[k].view
    /\ editor.hist[k].doc # << >>
    /\ editor.hist[k + 1].op = "getContent"

\* the last operation on the editor
Last == editor.hist[Len(editor.hist)]

\* C19 as stated: after insertText(text) on a backend the content is the
\* previous content with text inserted at the cursor, nothing removed (the
\* length has grown by text.length), and the cursor sits right after the
\* inserted text.  Stated for texts without carriage return.
C19_InsertAtCursor ==
  ( /\ Len(editor.hist) > 0
    /\ Last.op = "insertText"
    /\ Last.view \/ Last.textarea
    /\ CR \notin {Last.arg[i] : i \in 1..Len(Last.arg)} ) =>
    /\ Len(editor.doc) = Len(Last.doc) + Len(Last.arg)
    /\ editor.doc = Substring(Last.doc, 0, Last.head) \o Last.arg
                     \o Substring(Last.doc, Last.head, Len(Last.doc))
    /\ editor.head = Last.head + Len(Last.arg)
    /\ editor.anchor = editor.head

\* the selection of x starts inside the text, on a list or todo line
OnItem(x) ==
  /\ SelFrom(x) >= 0
  /\ \/ IsListItem(LineAt(x.doc, SelFrom(x)).text)
     \/ IsTodoItem(LineAt(x.doc, SelFrom(x)).text)

\* what a key handler leaves: the text, the selection, and whether it threw
Outcome(e) ==
  [doc |-> e.doc, anchor |-> e.anchor, head |-> e.head, threw |-> e.threw]

\* C20 as stated: Tab on a list or todo line puts two spaces in front of that
\* line and changes nothing else; a Shift+Tab that follows restores the text
\* and puts the cursor back where it was; and for the same text, selection
\* and key the CodeMirror handler and the textarea handler leave the same
\* text and cursor.
C20_TabIndent ==
  /\ \A k \in 1..Len(editor.hist) :
       (editor.hist[k].op = "Tab" /\ OnItem(editor.hist[k])) =>
         LET before == editor.hist[k]
             ls     == LineAt(before.doc, SelFrom(before)).from
             after  == IF k = Len(editor.hist) THEN editor ELSE editor.hist[k + 1]
         IN /\ after.doc = Substring(before.doc, 0, ls) \o <<" ", " ">>
                            \o Substring(before.doc, ls, Len(before.doc))
            /\ ( /\ k + 1 = Len(editor.hist)
                 /\ editor.hist[k + 1].op = "Shift+Tab" ) =>
                 /\ editor.doc = before.doc
                 /\ editor.head = SelFrom(before)
                 /\ editor.anchor = editor.head
  /\ ((editor.view \/ editor.textarea) /\ OnItem(editor)) =>
       \A shiftKey \in BOOLEAN :
         Outcome(KeydownCM(Fresh(editor), shiftKey))
           = Outcome(KeydownTextarea(Fresh(editor), shiftKey))

\* C21 as stated: whenever the plugin is at rest, after its constructor and
\* after every update notification it has handled, this.decorations is what
\* buildDecorations gives for the view's current tree and visible ranges.
C21_NeverStale ==
  pc = "idle" => decorations = BuildDecorations(tree, ranges).spans

\* C22 as stated: in a returned list the hidden spans of an inline-code node
\* are non-empty, lie within the node's range and do not overlap each other,
\* whatever the length of the node.  Stated for trees without defects and calls
\* with a single visible range, where every node is entered at most once.
C22_HiddenInside ==
  (Returned /\ Defects(tree) = 0 /\ Len(ranges) = 1) =>
    \A k \in 1..Len(decorations) : \A l \in 1..Len(decorations) :
      ( /\ decorations[k].kind = "replace" /\ decorations[l].kind = "replace"
        /\ decorations[k].node = decorations[l].node
        /\ "inline-code" \in tree[decorations[k].node].props ) =>
        /\ decorations[k].from < decorations[k].to
        /\ tree[decorations[k].node].from <= decorations[k].from
        /\ decorations[k].to <= tree[decorations[k].node].to
        /\ k # l => ~Intersects(decorations[k], decorations[l])

\* the wiki links and the markdown links of a string that are no images
WikiLinks(t) ==
  { l \in { InternalMatches(t, 0)[k] : k \in 1..Len(InternalMatches(t, 0)) } :
      ~IsImage(l) }

NoteLinks(t) ==
  { l \in { ExternalMatches(t, 0)[k] : k \in 1..Len(ExternalMatches(t, 0)) } :
      ~IsImage(l) }

\* C23 as stated: the string a call with a memoid returns holds none of the
\* non-image wiki links of the rendered HTML.
C23_LinksRewritten ==
  \A k \in 1..Len(md.hist) :
    md.hist[k].memoid =>
      \A l \in WikiLinks(Marked(md.hist[k].markedStr)) :
        IndexOfString(md.hist[k].out, l) = -1

\* C24 as stated: two calls with the same markedStr and memoid return the same
\* string, whatever was parsed before and between them (the metadata cache
\* does not change).
C24_Deterministic ==
  \A k \in 1..Len(md.hist) : \A l \in 1..Len(md.hist) :
    ( /\ md.hist[k].markedStr = md.hist[l].markedStr
      /\ md.hist[k].memoid = md.hist[l].memoid ) =>
      md.hist[k].out = md.hist[l].out

\* C25 as stated: in the string a call with a memoid returns, every non-image
\* markdown link of the rendered HTML that has been rewritten (it is no longer
\* in the string) has become the anchor that shows the link's own label.
\* Stated for calls that found EXRERNAL_MD_REG with lastIndex 0.
C25_OwnLabel ==
  \A k \in 1..Len(md.hist) :
    (md.hist[k].memoid /\ md.hist[k].external = 0) =>
      \A l \in NoteLinks(Marked(md.hist[k].markedStr)) :
        IndexOfString(md.hist[k].out, l) = -1 =>
          IndexOfString(md.hist[k].out,
            ReplaceMd(md.resolved, ExternalExec(l, 0).g3, ExternalExec(l, 0).g1)) # -1

\* C26 as stated: after the Tab handler of either backend has run on a
\* selection inside the document, the cursor is within the line the handler
\* edited, and so within the document.
C26_CursorInBounds ==
  \A k \in 1..Len(editor.hist) :
    ( /\ editor.hist[k].op \in {"Tab", "Shift+Tab"}
      /\ editor.hist[k].view \/ editor.hist[k].textarea
      /\ SelFrom(editor.hist[k]) >= 0 ) =>
      LET before == editor.hist[k]
          after  == IF k = Len(editor.hist) THEN editor ELSE editor.hist[k + 1]
          ls     == LineAt(before.doc, SelFrom(before)).from
          edited == LineAt(after.doc, ls)
      IN /\ after.head >= edited.from /\ after.head <= edited.to
         /\ after.head >= 0 /\ after.head <= Len(after.doc)
         /\ after.anchor = after.head

====
